---- MODULE Spec2Model ----
(***************************************************************************)
(* Traffic Capture Monitor of bike-repair-app (src/strava_monitor.py).     *)
(*                                                                         *)
(* The model follows StravaMonitor.monitor_continuously: a loop of cycles  *)
(* (check_for_new_activities) separated by time.sleep(check_interval).     *)
(* One cycle = connectivity check, drain of pending_captures               *)
(* (process_pending_captures), poll of the ride source, discovery loop.    *)
(*                                                                         *)
(* Time is counted in check intervals: a ride's age is the number of       *)
(* sleeps of the monitor since the ride started, and the 24 hour look-back *)
(* of the poll is LookBackIntervals of them.  The two SQLite tables are a  *)
(* set of rows (traffic_comparisons) and a sequence of rows ordered by     *)
(* discovered_at (pending_captures); INSERT OR REPLACE on the UNIQUE       *)
(* activity_id column is modelled as delete-then-insert.                   *)
(*                                                                         *)
(* Environment: the network probe, the directions API and the ride source  *)
(* may fail at every call.  An activity record is the same in the list and *)
(* in the detail answer of the ride source and carries a well-formed       *)
(* start_date.  Under Spec and SpecSourceUp every SQLite statement         *)
(* succeeds and the process is not interrupted.                            *)
(*                                                                         *)
(* Further specifications add one thing each to that run:                  *)
(*   SpecOracleCounted   the Oracle calls of every ride are counted;       *)
(*   SpecInsideLookBack  no ride leaves the 24 h look-back during the run; *)
(*   SpecInterrupt       KeyboardInterrupt may arrive at any statement;    *)
(*   SpecStoreFault      one statement of the store raises sqlite3.Error;  *)
(*   SpecDashboard       web_dashboard.py serves /api/trigger_check in a   *)
(*                       second process over the same database;            *)
(*   SpecRecapture       the captures of one activity with the columns id  *)
(*                       and captured_at;                                  *)
(*   SpecRecover         all failures together, the run followed past the  *)
(*                       cycle in which a statement of the store raised.   *)
(*                                                                         *)
(* Three specifications stand apart from the monitor's run:                *)
(*   SpecAdapter         GoogleMapsAPI.get_route_time and _analyze_traffic *)
(*                       applied once to every upstream outcome;           *)
(*   SpecMetrics         the derived columns of one captured row, for both *)
(*                       capture paths;                                    *)
(*   SpecBackfill        capture_historical_traffic.py run once over a     *)
(*                       database with earlier captures.                   *)
(***************************************************************************)
EXTENDS Integers, Sequences, FiniteSets, TLC

\* ---- bounds of the model ------------------------------------------------
MaxRides == 2            \* rides the ride source ever reports
LookBackIntervals == 2   \* check intervals covered by the 24 h look-back
MaxRequests == 1         \* requests of /api/trigger_check that are followed
MaxDuration == 20        \* longest leg duration the directions API reports, seconds

\* ---- program constants --------------------------------------------------
RetryBound == 3          \* WHERE retry_count < 3

\* ---- value domains ------------------------------------------------------
MovingTimes == {1800}            \* moving_time of a ride, seconds
NoTraffic == 0 - 1               \* leg without "duration_in_traffic"
Legs == { [duration |-> 600, duration_in_traffic |-> NoTraffic],
          [duration |-> 600, duration_in_traffic |-> 1200] }

\* upstream answers of the directions API, as seen by requests.get
Responses ==
    { [exception |-> TRUE,  status_code |-> 0,   status |-> "", routes |-> <<>>],
      [exception |-> FALSE, status_code |-> 500, status |-> "", routes |-> <<>>],
      [exception |-> FALSE, status_code |-> 200, status |-> "OVER_QUERY_LIMIT", routes |-> <<>>],
      [exception |-> FALSE, status_code |-> 200, status |-> "OK", routes |-> <<>>] }
    \cup { [exception |-> FALSE, status_code |-> 200, status |-> "OK", routes |-> <<l>>] : l \in Legs }

VARIABLES
    strava,               \* ride source: activity id -> activity record
    traffic_comparisons,  \* table traffic_comparisons: set of rows
    pending_captures,     \* table pending_captures: rows ordered by discovered_at
    pc,                   \* position of the monitor loop
    online,               \* whether the network was reachable at this cycle's probe
    pending,              \* process_pending_captures: the list being drained
    pi,                   \* index of the pending item being processed
    comparison,           \* result of capture_traffic_for_pending for pending[pi]
    activities,           \* list returned by get_activities in this cycle
    ai,                   \* index of the activity being processed
    last_processed,       \* watermark read in this cycle (0 stands for None)
    calls,                \* external calls made by the last step, in order
    log,                  \* enrichment attempts of the current cycle, in order
    oracle_failures,      \* activity id -> Oracle calls made for it since its last success
    exhausted,            \* ids whose pending row has had retry_count >= RetryBound
    trigger,              \* the dashboard process: its run of check_for_new_activities
    recapture,            \* two captures of one activity, side by side
    probe,                \* one call of a pure function: its inputs and its result
    backfill,             \* the one-shot historical capture: its position and counts
    faulted               \* whether a statement of the store has raised in this run

vars == <<strava, traffic_comparisons, pending_captures, pc, online, pending, pi,
          comparison, activities, ai, last_processed, calls, log, oracle_failures,
          exhausted, trigger, recapture, probe, backfill, faulted>>

\* state that the monitor process never touches
outside == <<trigger, recapture, probe, backfill, faulted>>

\* ---- helpers ------------------------------------------------------------
Call(op, id) == [op |-> op, id |-> id]

Attempt(path, id, result) == [path |-> path, id |-> id, result |-> result]

Max(S) == CHOOSE x \in S : \A y \in S : y <= x

Min2(a, b) == IF a < b THEN a ELSE b

\* all orders in which a finite set can be listed
Perms(S) == { s \in [1..Cardinality(S) -> S] : \A i, j \in 1..Cardinality(S) : s[i] = s[j] => i = j }

HasCoordinates_start_only(activity) == activity.start_latlng

\* lines 148 and 374: not (not start_latlng or not end_latlng)
HasCoordinates(activity) == activity.start_latlng /\ activity.end_latlng

\* ---- Route-Time Oracle Adapter (src/traffic_comparison.py) --------------
_analyze_traffic_inclusive(leg) ==
    IF leg.duration_in_traffic # NoTraffic
    THEN IF leg.duration_in_traffic * 10 >= leg.duration * 13 THEN "Heavy Traffic"
         ELSE IF leg.duration_in_traffic * 10 >= leg.duration * 11 THEN "Moderate Traffic"
         ELSE "Light Traffic"
    ELSE "Unknown Traffic"

\* lines 96-118: traffic_duration > regular_duration * 1.3, then * 1.1; the
\* durations are whole seconds, so the comparisons are made on tenths

_analyze_traffic(leg) ==
    IF leg.duration_in_traffic # NoTraffic
    THEN IF leg.duration_in_traffic * 10 > leg.duration * 13 THEN "Heavy Traffic"
         ELSE IF leg.duration_in_traffic * 10 > leg.duration * 11 THEN "Moderate Traffic"
         ELSE "Light Traffic"
    ELSE "Unknown Traffic"

get_route_time_uncaught(response) ==
    IF response.exception
    THEN [raised |-> TRUE]
    ELSE IF response.status_code = 200 /\ response.status = "OK" /\ Len(response.routes) > 0
         THEN LET leg == response.routes[1] IN
              [error |-> FALSE,
               duration_seconds |-> IF leg.duration_in_traffic # NoTraffic
                                    THEN leg.duration_in_traffic ELSE leg.duration,
               traffic_conditions |-> _analyze_traffic(leg)]
         ELSE [error |-> TRUE, duration_seconds |-> 0, traffic_conditions |-> ""]

\* lines 68-94: the whole request inside try / except Exception

get_route_time(response) ==
    IF response.exception
    THEN [error |-> TRUE, duration_seconds |-> 0, traffic_conditions |-> ""]
    ELSE IF response.status_code = 200
         THEN IF response.status = "OK" /\ Len(response.routes) > 0
              THEN LET leg == response.routes[1] IN
                   [error |-> FALSE,
                    duration_seconds |-> IF leg.duration_in_traffic # NoTraffic
                                         THEN leg.duration_in_traffic ELSE leg.duration,
                    traffic_conditions |-> _analyze_traffic(leg)]
              ELSE [error |-> TRUE, duration_seconds |-> 0, traffic_conditions |-> ""]
         ELSE [error |-> TRUE, duration_seconds |-> 0, traffic_conditions |-> ""]

\* ---- Durable Store (src/strava_monitor.py) ------------------------------
store_traffic_comparison_insert(table, row) == table \cup {row}

\* lines 327-341: INSERT OR REPLACE on the UNIQUE activity_id
store_traffic_comparison(table, row) ==
    { r \in table : r.activity_id # row.activity_id } \cup {row}

get_last_processed_activity_rows(table) == Cardinality(table)

\* lines 121-130: SELECT MAX(activity_id) FROM traffic_comparisons; None is 0

get_last_processed_activity(table) ==
    IF table = {} THEN 0 ELSE Max({ r.activity_id : r \in table })

PendingRow_counted(activity) ==
    [activity_id |-> activity.id,
     bike_time_minutes |-> activity.moving_time \div 60,
     retry_count |-> 1]

\* lines 158-167: the row written by INSERT OR REPLACE; retry_count is not in
\* the column list and takes its DEFAULT 0
PendingRow(activity) ==
    [activity_id |-> activity.id,
     bike_time_minutes |-> activity.moving_time \div 60,
     retry_count |-> 0]

store_pending_activity_uncommitted(table, activity) == table

store_pending_activity(table, activity) ==
    IF ~HasCoordinates(activity)
    THEN table
    ELSE SelectSeq(table, LAMBDA r : r.activity_id # activity.id) \o <<PendingRow(activity)>>

get_pending_captures_all(table) == table

\* lines 177-211: SELECT ... WHERE retry_count < 3 ORDER BY discovered_at ASC

get_pending_captures(table) == SelectSeq(table, LAMBDA r : r.retry_count < RetryBound)

remove_pending_activity_every_row(table, activity_id) == <<>>

\* lines 299-306: DELETE FROM pending_captures WHERE activity_id = ?
remove_pending_activity(table, activity_id) ==
    SelectSeq(table, LAMBDA r : r.activity_id # activity_id)

increment_retry_count_every_row(table, activity_id) ==
    [i \in 1..Len(table) |-> [table[i] EXCEPT !.retry_count = @ + 1]]

\* lines 308-320: UPDATE ... SET retry_count = retry_count + 1 WHERE activity_id = ?
increment_retry_count(table, activity_id) ==
    [i \in 1..Len(table) |->
        IF table[i].activity_id = activity_id
        THEN [table[i] EXCEPT !.retry_count = @ + 1]
        ELSE table[i]]

\* the StoredTrafficComparison built by both capture paths
StoredTrafficComparison(activity_id, bike_time_minutes, route_data) ==
    [activity_id |-> activity_id,
     bike_time_minutes |-> bike_time_minutes,
     car_time_minutes |-> route_data.duration_seconds \div 60,
     time_saved_minutes |-> (route_data.duration_seconds \div 60) - bike_time_minutes,
     traffic_conditions |-> route_data.traffic_conditions]

\* lines 283 and 415: captured_at = datetime.now().isoformat()
CapturedAt(row, now) == row @@ [captured_at |-> now]

\* lines 392-423: the StoredTrafficComparison of the discovery path
capture_traffic_for_activity(activity, route_data, now) ==
    CapturedAt(StoredTrafficComparison(activity.id, activity.moving_time \div 60, route_data), now)

capture_traffic_for_pending_negated(pending_activity, route_data, now) ==
    CapturedAt([StoredTrafficComparison(pending_activity.activity_id,
                                        pending_activity.bike_time_minutes, route_data)
                   EXCEPT !.time_saved_minutes = 0 - @], now)

\* lines 258-288: the StoredTrafficComparison of the drain path
capture_traffic_for_pending(pending_activity, route_data, now) ==
    CapturedAt(StoredTrafficComparison(pending_activity.activity_id,
                                       pending_activity.bike_time_minutes, route_data), now)

\* lines 68 and 327-341: INSERT OR REPLACE of a row whose id column is
\* INTEGER PRIMARY KEY AUTOINCREMENT
insert_or_replace(table, row, rowid) ==
    { r \in table : r.activity_id # row.activity_id } \cup { row @@ [id |-> rowid] }

\* ids with a row in each table
ComparisonIds == { r.activity_id : r \in traffic_comparisons }
PendingIds == { pending_captures[i].activity_id : i \in 1..Len(pending_captures) }

\* ---- history of the enrichment attempts ---------------------------------
\* the count stops at CallCap
CallCap == RetryBound + 2

\* one more get_route_time call for the id: a failure is counted, a success
\* starts the count again; DOMAIN count is the set of ids under observation
CountOracleCall(count, id, error) ==
    IF id \in DOMAIN count
    THEN [count EXCEPT ![id] = IF error THEN Min2(@ + 1, CallCap) ELSE 0]
    ELSE count

\* the ids of the rows that get_pending_captures no longer returns
Abandoned(table) ==
    { table[i].activity_id : i \in { j \in 1..Len(table) : table[j].retry_count >= RetryBound } }

\* traffic_comparisons with every column, before the first capture
NothingCaptured == [table |-> {}, now |-> 0, seq |-> 0, upstream |-> <<>>, last |-> <<>>]

\* the dashboard process before /api/trigger_check is requested
NotTriggered == [pc |-> "idle", requests |-> 0]

\* No pure function has been called.
NotCalled == [op |-> "none"]

\* The historical capture has not been started.
NotStarted == [pc |-> "idle", activities |-> <<>>, i |-> 1,
               captured_count |-> 0, skipped_count |-> 0]

\* ---- initial state ------------------------------------------------------
Init ==
    /\ strava = <<>>
    /\ traffic_comparisons = {}
    /\ pending_captures = <<>>
    /\ pc = "idle"
    /\ online = FALSE
    /\ pending = <<>>
    /\ pi = 1
    /\ comparison = FALSE
    /\ activities = <<>>
    /\ ai = 1
    /\ last_processed = 0
    /\ calls = <<>>
    /\ log = <<>>
    /\ oracle_failures = <<>>
    /\ exhausted = {}
    /\ trigger = NotTriggered
    /\ recapture = NothingCaptured
    /\ probe = NotCalled
    /\ backfill = NotStarted
    /\ faulted = FALSE

\* ---- environment: a ride is finished and uploaded -----------------------
\* Activity ids are assigned by the ride source in upload order.
RideFinishes ==
    /\ Len(strava) < MaxRides
    /\ \E s, e \in BOOLEAN, m \in MovingTimes :
          strava' = Append(strava, [id |-> Len(strava) + 1, start_latlng |-> s,
                                    end_latlng |-> e, moving_time |-> m, age |-> 0])
    /\ calls' = <<>>
    /\ UNCHANGED <<traffic_comparisons, pending_captures, pc, online, pending, pi,
                   comparison, activities, ai, last_processed, log,
                   oracle_failures, exhausted, outside>>

\* ---- check_for_new_activities, lines 438-445: connectivity gate ---------
check_internet_connection_optimistic(reachable) == TRUE

\* lines 112-119: True when the probe request returns, False when it raises
check_internet_connection(reachable) == reachable

CheckConnection_unfiltered ==
    /\ pc = "idle"
    /\ \E reachable \in BOOLEAN :
          /\ online' = reachable
          /\ IF check_internet_connection(reachable)
             THEN /\ pending' = pending_captures
                  /\ pc' = "drain"
             ELSE /\ pending' = <<>>
                  /\ pc' = "returned"
    /\ pi' = 1
    /\ comparison' = FALSE
    /\ calls' = <<Call("google", 0)>>
    /\ UNCHANGED <<strava, traffic_comparisons, pending_captures, activities, ai,
                   last_processed, log,
                   oracle_failures, exhausted, outside>>

CheckConnection ==
    /\ pc = "idle"
    /\ \E reachable \in BOOLEAN :
          /\ online' = reachable
          /\ IF check_internet_connection(reachable)
             THEN /\ pending' = get_pending_captures(pending_captures)
                  /\ pc' = "drain"
             ELSE /\ pending' = <<>>
                  /\ pc' = "returned"
    /\ pi' = 1
    /\ comparison' = FALSE
    /\ calls' = <<Call("google", 0)>>
    /\ UNCHANGED <<strava, traffic_comparisons, pending_captures, activities, ai,
                   last_processed, log,
                   oracle_failures, exhausted, outside>>

\* ---- process_pending_captures, line 226: capture_traffic_for_pending ----
DrainCapture_transactional ==
    /\ pc = "drain"
    /\ pi <= Len(pending)
    /\ \E response \in Responses :
          LET pending_activity == pending[pi]
              route_data == get_route_time(response)
          IN  IF route_data.error
              THEN /\ comparison' = FALSE
                   /\ log' = Append(log, Attempt("drain", pending_activity.activity_id, "oracle_error"))
                   /\ UNCHANGED <<traffic_comparisons, pending_captures>>
              ELSE /\ comparison' = TRUE
                   /\ log' = Append(log, Attempt("drain", pending_activity.activity_id, "captured"))
                   /\ traffic_comparisons' =
                         store_traffic_comparison(traffic_comparisons,
                            StoredTrafficComparison(pending_activity.activity_id,
                                                    pending_activity.bike_time_minutes,
                                                    route_data))
                   /\ pending_captures' =
                         remove_pending_activity(pending_captures, pending_activity.activity_id)
    /\ pc' = "drain_result"
    /\ calls' = <<Call("oracle", pending[pi].activity_id)>>
    /\ oracle_failures' =
          CountOracleCall(oracle_failures, pending[pi].activity_id, ~comparison')
    /\ UNCHANGED <<strava, online, pending, pi, activities, ai, last_processed,
                   exhausted, outside>>

\* lines 246-297: one Oracle call, and on success the comparison is written
DrainCapture ==
    /\ pc = "drain"
    /\ pi <= Len(pending)
    /\ \E response \in Responses :
          LET pending_activity == pending[pi]
              route_data == get_route_time(response)
          IN  IF route_data.error
              THEN /\ comparison' = FALSE
                   /\ log' = Append(log, Attempt("drain", pending_activity.activity_id, "oracle_error"))
                   /\ UNCHANGED traffic_comparisons
              ELSE /\ comparison' = TRUE
                   /\ log' = Append(log, Attempt("drain", pending_activity.activity_id, "captured"))
                   /\ traffic_comparisons' =
                         store_traffic_comparison(traffic_comparisons,
                            StoredTrafficComparison(pending_activity.activity_id,
                                                    pending_activity.bike_time_minutes,
                                                    route_data))
    /\ pc' = "drain_result"
    /\ calls' = <<Call("oracle", pending[pi].activity_id)>>
    /\ oracle_failures' =
          CountOracleCall(oracle_failures, pending[pi].activity_id, ~comparison')
    /\ UNCHANGED <<strava, pending_captures, online, pending, pi, activities, ai, last_processed,
                   exhausted, outside>>

\* ---- process_pending_captures, lines 228-238 ----------------------------
DrainRemove_unconditional ==
    /\ pc = "drain_result"
    /\ pending_captures' = remove_pending_activity(pending_captures, pending[pi].activity_id)
    /\ pi' = pi + 1
    /\ pc' = "drain"
    /\ calls' = <<Call("sleep", 0)>>
    /\ UNCHANGED <<strava, traffic_comparisons, online, pending, comparison, activities,
                   ai, last_processed, log,
                   oracle_failures, exhausted, outside>>

\* lines 228-231 and 238: the capture returned a comparison
DrainRemove ==
    /\ pc = "drain_result"
    /\ comparison
    /\ pending_captures' = remove_pending_activity(pending_captures, pending[pi].activity_id)
    /\ pi' = pi + 1
    /\ pc' = "drain"
    /\ calls' = <<Call("sleep", 0)>>
    /\ UNCHANGED <<strava, traffic_comparisons, online, pending, comparison, activities,
                   ai, last_processed, log,
                   oracle_failures, exhausted, outside>>

DrainIncrement_abort ==
    /\ pc = "drain_result"
    /\ ~comparison
    /\ pending_captures' = increment_retry_count(pending_captures, pending[pi].activity_id)
    /\ exhausted' = exhausted \cup Abandoned(pending_captures')
    /\ pi' = Len(pending) + 1
    /\ pc' = "drain"
    /\ calls' = <<Call("sleep", 0)>>
    /\ UNCHANGED <<strava, traffic_comparisons, online, pending, comparison, activities,
                   ai, last_processed, log, oracle_failures, outside>>

\* lines 232-242: the failure branch; the for loop goes on with the next row
DrainIncrement ==
    /\ pc = "drain_result"
    /\ ~comparison
    /\ pending_captures' = increment_retry_count(pending_captures, pending[pi].activity_id)
    /\ exhausted' = exhausted \cup Abandoned(pending_captures')
    /\ pi' = pi + 1
    /\ pc' = "drain"
    /\ calls' = <<Call("sleep", 0)>>
    /\ UNCHANGED <<strava, traffic_comparisons, online, pending, comparison, activities,
                   ai, last_processed, log,
                   oracle_failures, outside>>

\* ---- check_for_new_activities, lines 449-457: poll and watermark --------
InWindow(activity) == activity.age < LookBackIntervals

Poll_early ==
    /\ pc = "drain"
    /\ \E listed \in Perms({ id \in DOMAIN strava : InWindow(strava[id]) }) :
          /\ activities' = listed
          /\ IF listed = <<>>
             THEN /\ last_processed' = 0
                  /\ pc' = "returned"
             ELSE /\ last_processed' = get_last_processed_activity(traffic_comparisons)
                  /\ pc' = "discover"
    /\ ai' = 1
    /\ calls' = <<Call("activities", 0)>>
    /\ UNCHANGED <<strava, traffic_comparisons, pending_captures, online, pending, pi,
                   comparison, log,
                   oracle_failures, exhausted, outside>>

\* lines 444-457, after the drain has returned: get_activities answers with
\* the rides inside the look-back, in any order
Poll ==
    /\ pc = "drain"
    /\ pi > Len(pending)
    /\ \E listed \in Perms({ id \in DOMAIN strava : InWindow(strava[id]) }) :
          /\ activities' = listed
          /\ IF listed = <<>>
             THEN /\ last_processed' = 0
                  /\ pc' = "returned"
             ELSE /\ last_processed' = get_last_processed_activity(traffic_comparisons)
                  /\ pc' = "discover"
    /\ ai' = 1
    /\ calls' = <<Call("activities", 0)>>
    /\ UNCHANGED <<strava, traffic_comparisons, pending_captures, online, pending, pi,
                   comparison, log,
                   oracle_failures, exhausted, outside>>

\* get_activities raises: the handler of lines 487-489 returns []
PollFails ==
    /\ pc = "drain"
    /\ pi > Len(pending)
    /\ pc' = "failed"
    /\ calls' = <<Call("activities", 0)>>
    /\ UNCHANGED <<strava, traffic_comparisons, pending_captures, online, pending, pi,
                   comparison, activities, ai, last_processed, log,
                   oracle_failures, exhausted, outside>>

\* ---- check_for_new_activities, lines 461-483: one iteration -------------
AlreadyProcessed_strict(activity_id, last) == last # 0 /\ activity_id < last

\* line 465: if last_processed and activity_id <= last_processed
AlreadyProcessed(activity_id, last) == last # 0 /\ activity_id <= last

DiscoverSkip ==
    /\ pc = "discover"
    /\ ai <= Len(activities)
    /\ AlreadyProcessed(activities[ai], last_processed)
    /\ ai' = ai + 1
    /\ calls' = <<>>
    /\ log' = Append(log, Attempt("discovery", activities[ai], "skipped"))
    /\ UNCHANGED <<strava, traffic_comparisons, pending_captures, pc, online, pending, pi,
                   comparison, activities, last_processed,
                   oracle_failures, exhausted, outside>>

\* lines 358-362 and 427-429: get_activity_details raises or returns nothing,
\* capture_traffic_for_activity returns None and the activity is queued
DiscoverDetailsFail ==
    /\ pc = "discover"
    /\ ai <= Len(activities)
    /\ ~AlreadyProcessed(activities[ai], last_processed)
    /\ LET activity == strava[activities[ai]] IN
          /\ pending_captures' = store_pending_activity(pending_captures, activity)
          /\ calls' = <<Call("details", activity.id), Call("sleep", 0)>>
          /\ log' = Append(log, Attempt("discovery", activity.id, "details_error"))
    /\ ai' = ai + 1
    /\ UNCHANGED <<strava, traffic_comparisons, pc, online, pending, pi, comparison,
                   activities, last_processed,
                   oracle_failures, exhausted, outside>>

DiscoverCapture_again ==
    /\ pc = "discover"
    /\ ai <= Len(activities)
    /\ ~AlreadyProcessed(activities[ai], last_processed)
    /\ LET activity == strava[activities[ai]] IN
       \/ \* lines 374-376: no coordinates
          /\ ~HasCoordinates(activity)
          /\ pending_captures' = store_pending_activity(pending_captures, activity)
          /\ calls' = <<Call("details", activity.id), Call("sleep", 0)>>
          /\ log' = Append(log, Attempt("discovery", activity.id, "no_coordinates"))
          /\ UNCHANGED <<traffic_comparisons, oracle_failures>>
       \/ /\ HasCoordinates(activity)
          /\ \E response \in Responses :
                LET route_data == get_route_time(response) IN
                /\ oracle_failures' =
                      CountOracleCall(oracle_failures, activity.id, route_data.error)
                /\ IF route_data.error
                   THEN /\ pending_captures' = store_pending_activity(pending_captures, activity)
                        /\ log' = Append(log, Attempt("discovery", activity.id, "oracle_error"))
                        /\ UNCHANGED traffic_comparisons
                   ELSE /\ traffic_comparisons' =
                              store_traffic_comparison(traffic_comparisons,
                                 StoredTrafficComparison(activity.id, activity.moving_time \div 60,
                                                         route_data))
                        /\ log' = Append(log, Attempt("discovery", activity.id, "captured"))
                        /\ UNCHANGED pending_captures
          /\ calls' = <<Call("details", activity.id), Call("oracle", activity.id), Call("sleep", 0)>>
    /\ ai' = ai
    /\ UNCHANGED <<strava, pc, online, pending, pi, comparison, activities, last_processed,
                   exhausted, outside>>

\* capture_traffic_for_activity, then store_pending_activity when it returned None
DiscoverCapture ==
    /\ pc = "discover"
    /\ ai <= Len(activities)
    /\ ~AlreadyProcessed(activities[ai], last_processed)
    /\ LET activity == strava[activities[ai]] IN
       \/ \* lines 374-376: no coordinates
          /\ ~HasCoordinates(activity)
          /\ pending_captures' = store_pending_activity(pending_captures, activity)
          /\ calls' = <<Call("details", activity.id), Call("sleep", 0)>>
          /\ log' = Append(log, Attempt("discovery", activity.id, "no_coordinates"))
          /\ UNCHANGED <<traffic_comparisons, oracle_failures>>
       \/ /\ HasCoordinates(activity)
          /\ \E response \in Responses :
                LET route_data == get_route_time(response) IN
                /\ oracle_failures' =
                      CountOracleCall(oracle_failures, activity.id, route_data.error)
                /\ IF route_data.error
                   THEN /\ pending_captures' = store_pending_activity(pending_captures, activity)
                        /\ log' = Append(log, Attempt("discovery", activity.id, "oracle_error"))
                        /\ UNCHANGED traffic_comparisons
                   ELSE /\ traffic_comparisons' =
                              store_traffic_comparison(traffic_comparisons,
                                 StoredTrafficComparison(activity.id, activity.moving_time \div 60,
                                                         route_data))
                        /\ log' = Append(log, Attempt("discovery", activity.id, "captured"))
                        /\ UNCHANGED pending_captures
          /\ calls' = <<Call("details", activity.id), Call("oracle", activity.id), Call("sleep", 0)>>
    /\ ai' = ai + 1
    /\ UNCHANGED <<strava, pc, online, pending, pi, comparison, activities, last_processed,
                   exhausted, outside>>

\* line 485: return new_comparisons
Return ==
    /\ pc = "discover"
    /\ ai > Len(activities)
    /\ pc' = "returned"
    /\ calls' = <<>>
    /\ UNCHANGED <<strava, traffic_comparisons, pending_captures, online, pending, pi,
                   comparison, activities, ai, last_processed, log,
                   oracle_failures, exhausted, outside>>

Sleep_after_success ==
    /\ pc = "returned"
    /\ strava' = [id \in DOMAIN strava |->
                    [strava[id] EXCEPT !.age = Min2(@ + 1, LookBackIntervals)]]
    /\ pc' = "idle"
    /\ pending' = <<>>
    /\ pi' = 1
    /\ comparison' = FALSE
    /\ activities' = <<>>
    /\ ai' = 1
    /\ last_processed' = 0
    /\ calls' = <<Call("sleep", 0)>>
    /\ log' = <<>>
    /\ online' = FALSE
    /\ UNCHANGED <<traffic_comparisons, pending_captures,
                   oracle_failures, exhausted, outside>>

\* ---- monitor_continuously, line 515: time.sleep(check_interval) ---------
Sleep ==
    /\ pc \in {"returned", "failed"}
    /\ strava' = [id \in DOMAIN strava |->
                    [strava[id] EXCEPT !.age = Min2(@ + 1, LookBackIntervals)]]
    /\ pc' = "idle"
    /\ pending' = <<>>
    /\ pi' = 1
    /\ comparison' = FALSE
    /\ activities' = <<>>
    /\ ai' = 1
    /\ last_processed' = 0
    /\ calls' = <<Call("sleep", 0)>>
    /\ log' = <<>>
    /\ online' = FALSE
    /\ UNCHANGED <<traffic_comparisons, pending_captures,
                   oracle_failures, exhausted, outside>>

Next ==
    \/ RideFinishes
    \/ CheckConnection
    \/ DrainCapture
    \/ DrainRemove
    \/ DrainIncrement
    \/ Poll
    \/ PollFails
    \/ DiscoverSkip
    \/ DiscoverDetailsFail
    \/ DiscoverCapture
    \/ Return
    \/ Sleep

Spec == Init /\ [][Next]_vars

\* the same monitor against a ride source that answers every call
NextSourceUp ==
    \/ RideFinishes
    \/ CheckConnection
    \/ DrainCapture
    \/ DrainRemove
    \/ DrainIncrement
    \/ Poll
    \/ DiscoverSkip
    \/ DiscoverCapture
    \/ Return
    \/ Sleep

SpecSourceUp == Init /\ [][NextSourceUp]_vars

\* the same run with the Oracle calls of every ride counted
InitCounted ==
    /\ strava = <<>>
    /\ traffic_comparisons = {}
    /\ pending_captures = <<>>
    /\ pc = "idle"
    /\ online = FALSE
    /\ pending = <<>>
    /\ pi = 1
    /\ comparison = FALSE
    /\ activities = <<>>
    /\ ai = 1
    /\ last_processed = 0
    /\ calls = <<>>
    /\ log = <<>>
    /\ oracle_failures = [id \in 1..MaxRides |-> 0]
    /\ exhausted = {}
    /\ trigger = NotTriggered
    /\ recapture = NothingCaptured
    /\ probe = NotCalled
    /\ backfill = NotStarted
    /\ faulted = FALSE

SpecOracleCounted == InitCounted /\ [][NextSourceUp]_vars

\* time.sleep(check_interval) while every ride is still younger than the
\* 24 h of line 449: a run of fewer check intervals than the look-back holds
SleepInsideLookBack ==
    /\ pc \in {"returned", "failed"}
    /\ pc' = "idle"
    /\ pending' = <<>>
    /\ pi' = 1
    /\ comparison' = FALSE
    /\ activities' = <<>>
    /\ ai' = 1
    /\ last_processed' = 0
    /\ calls' = <<Call("sleep", 0)>>
    /\ log' = <<>>
    /\ online' = FALSE
    /\ UNCHANGED <<strava, traffic_comparisons, pending_captures, oracle_failures,
                   exhausted, outside>>

NextInsideLookBack ==
    \/ RideFinishes
    \/ CheckConnection
    \/ DrainCapture
    \/ DrainRemove
    \/ DrainIncrement
    \/ Poll
    \/ PollFails
    \/ DiscoverSkip
    \/ DiscoverDetailsFail
    \/ DiscoverCapture
    \/ Return
    \/ SleepInsideLookBack

SpecInsideLookBack == Init /\ [][NextInsideLookBack]_vars

\* ---- monitor_continuously, lines 516-518: except KeyboardInterrupt -------
\* Ctrl+C raises KeyboardInterrupt at the statement the process is at; the
\* handlers of lines 240, 295, 427 and 487 catch Exception only, so it
\* reaches monitor_continuously from any point of the cycle
Interrupt ==
    /\ pc # "stopped"
    /\ pc' = "stopped"
    /\ log' = Append(log, Attempt("interrupt", 0, pc))
    /\ calls' = <<>>
    /\ UNCHANGED <<strava, traffic_comparisons, pending_captures, online, pending, pi,
                   comparison, activities, ai, last_processed, oracle_failures,
                   exhausted, outside>>

NextInterrupt ==
    \/ RideFinishes
    \/ CheckConnection
    \/ DrainCapture
    \/ DrainRemove
    \/ DrainIncrement
    \/ Poll
    \/ PollFails
    \/ DiscoverSkip
    \/ DiscoverDetailsFail
    \/ DiscoverCapture
    \/ Return
    \/ Sleep
    \/ Interrupt

SpecInterrupt == Init /\ [][NextInterrupt]_vars

\* ---- web_dashboard.py, trigger_check: the dashboard process runs ----------
\* check_for_new_activities on its own StravaMonitor over the same database
monitor_vars == <<pc, online, pending, pi, comparison, activities, ai, last_processed, log>>

InCycle(position) == position \in {"drain", "drain_result", "discover"}

\* lines 166-171 and strava_monitor.py 438-446
TriggerCheck ==
    /\ trigger.pc = "idle"
    /\ trigger.requests < MaxRequests
    /\ \E reachable \in BOOLEAN :
          trigger' = IF check_internet_connection(reachable)
                     THEN [pc |-> "drain", requests |-> trigger.requests + 1,
                           pending |-> get_pending_captures(pending_captures), pi |-> 1,
                           comparison |-> FALSE, activities |-> <<>>, ai |-> 1,
                           last_processed |-> 0]
                     ELSE [pc |-> "idle", requests |-> trigger.requests + 1]
    /\ calls' = <<Call("google", 0)>>
    /\ UNCHANGED <<strava, traffic_comparisons, pending_captures, monitor_vars,
                   oracle_failures, exhausted, recapture, probe, backfill, faulted>>

\* strava_monitor.py line 226
TriggerDrainCapture ==
    /\ trigger.pc = "drain"
    /\ trigger.pi <= Len(trigger.pending)
    /\ \E response \in Responses :
          LET pending_activity == trigger.pending[trigger.pi]
              route_data == get_route_time(response)
          IN  /\ trigger' = [trigger EXCEPT !.pc = "drain_result",
                                            !.comparison = ~route_data.error]
              /\ traffic_comparisons' =
                    IF route_data.error THEN traffic_comparisons
                    ELSE store_traffic_comparison(traffic_comparisons,
                            StoredTrafficComparison(pending_activity.activity_id,
                                                    pending_activity.bike_time_minutes,
                                                    route_data))
              /\ oracle_failures' =
                    CountOracleCall(oracle_failures, pending_activity.activity_id,
                                    route_data.error)
              /\ calls' = <<Call("oracle", pending_activity.activity_id)>>
    /\ UNCHANGED <<strava, pending_captures, monitor_vars, exhausted, recapture, probe, backfill, faulted>>

\* strava_monitor.py lines 228-238
TriggerDrainUpdate ==
    /\ trigger.pc = "drain_result"
    /\ pending_captures' =
          IF trigger.comparison
          THEN remove_pending_activity(pending_captures,
                                       trigger.pending[trigger.pi].activity_id)
          ELSE increment_retry_count(pending_captures,
                                     trigger.pending[trigger.pi].activity_id)
    /\ exhausted' = exhausted \cup Abandoned(pending_captures')
    /\ trigger' = [trigger EXCEPT !.pc = "drain", !.pi = @ + 1]
    /\ calls' = <<Call("sleep", 0)>>
    /\ UNCHANGED <<strava, traffic_comparisons, monitor_vars, oracle_failures, recapture, probe, backfill, faulted>>

\* strava_monitor.py lines 449-457
TriggerPoll ==
    /\ trigger.pc = "drain"
    /\ trigger.pi > Len(trigger.pending)
    /\ \E listed \in Perms({ id \in DOMAIN strava : InWindow(strava[id]) }) :
          trigger' = IF listed = <<>>
                     THEN [pc |-> "idle", requests |-> trigger.requests]
                     ELSE [trigger EXCEPT
                             !.pc = "discover",
                             !.activities = listed,
                             !.ai = 1,
                             !.last_processed =
                                get_last_processed_activity(traffic_comparisons)]
    /\ calls' = <<Call("activities", 0)>>
    /\ UNCHANGED <<strava, traffic_comparisons, pending_captures, monitor_vars,
                   oracle_failures, exhausted, recapture, probe, backfill, faulted>>

\* strava_monitor.py lines 461-483
TriggerDiscover ==
    /\ trigger.pc = "discover"
    /\ trigger.ai <= Len(trigger.activities)
    /\ LET activity == strava[trigger.activities[trigger.ai]] IN
       \/ /\ AlreadyProcessed(activity.id, trigger.last_processed)
          /\ calls' = <<>>
          /\ UNCHANGED <<traffic_comparisons, pending_captures, oracle_failures>>
       \/ /\ ~AlreadyProcessed(activity.id, trigger.last_processed)
          /\ ~HasCoordinates(activity)
          /\ pending_captures' = store_pending_activity(pending_captures, activity)
          /\ calls' = <<Call("details", activity.id), Call("sleep", 0)>>
          /\ UNCHANGED <<traffic_comparisons, oracle_failures>>
       \/ /\ ~AlreadyProcessed(activity.id, trigger.last_processed)
          /\ HasCoordinates(activity)
          /\ \E response \in Responses :
                LET route_data == get_route_time(response) IN
                /\ oracle_failures' =
                      CountOracleCall(oracle_failures, activity.id, route_data.error)
                /\ pending_captures' =
                      IF route_data.error
                      THEN store_pending_activity(pending_captures, activity)
                      ELSE pending_captures
                /\ traffic_comparisons' =
                      IF route_data.error THEN traffic_comparisons
                      ELSE store_traffic_comparison(traffic_comparisons,
                              StoredTrafficComparison(activity.id,
                                                      activity.moving_time \div 60,
                                                      route_data))
          /\ calls' = <<Call("details", activity.id), Call("oracle", activity.id),
                        Call("sleep", 0)>>
    /\ trigger' = [trigger EXCEPT !.ai = @ + 1]
    /\ UNCHANGED <<strava, monitor_vars, exhausted, recapture, probe, backfill, faulted>>

\* strava_monitor.py line 485 and web_dashboard.py lines 172-176
TriggerReturn ==
    /\ trigger.pc = "discover"
    /\ trigger.ai > Len(trigger.activities)
    /\ trigger' = [pc |-> "idle", requests |-> trigger.requests]
    /\ calls' = <<>>
    /\ UNCHANGED <<strava, traffic_comparisons, pending_captures, monitor_vars,
                   oracle_failures, exhausted, recapture, probe, backfill, faulted>>

NextDashboard ==
    \/ RideFinishes
    \/ CheckConnection
    \/ DrainCapture
    \/ DrainRemove
    \/ DrainIncrement
    \/ Poll
    \/ DiscoverSkip
    \/ DiscoverCapture
    \/ Return
    \/ Sleep
    \/ TriggerCheck
    \/ TriggerDrainCapture
    \/ TriggerDrainUpdate
    \/ TriggerPoll
    \/ TriggerDiscover
    \/ TriggerReturn

SpecDashboard == Init /\ [][NextDashboard]_vars

\* ---- a statement of the Durable Store raises sqlite3.Error ----------------
check_for_new_activities_reraise == "raised"

\* lines 487-489: except Exception: print, return []
check_for_new_activities_except == "failed"

\* One failing statement is followed per run, up to the end of its cycle.
StoreErrorLogged ==
    \E i \in 1..Len(log) :
       log[i].result \in {"read_error", "update_error", "store_error", "queue_error"}

\* line 215: get_pending_captures raises, outside every inner handler
GetPendingFails ==
    /\ pc = "idle"
    /\ ~faulted
    /\ faulted' = TRUE
    /\ online' = TRUE
    /\ pc' = check_for_new_activities_except
    /\ pending' = <<>>
    /\ pi' = 1
    /\ comparison' = FALSE
    /\ calls' = <<Call("google", 0), Call("sqlite_error", 0)>>
    /\ log' = Append(log, Attempt("cycle", 0, "read_error"))
    /\ UNCHANGED <<strava, traffic_comparisons, pending_captures, activities, ai,
                   last_processed, oracle_failures, exhausted, trigger, recapture,
                   probe, backfill>>

\* line 291: store_traffic_comparison raises after the Oracle answered; the
\* handler of lines 295-297 returns None
DrainStoreFails ==
    /\ pc = "drain"
    /\ ~faulted
    /\ faulted' = TRUE
    /\ pi <= Len(pending)
    /\ \E response \in Responses : ~get_route_time(response).error
    /\ comparison' = FALSE
    /\ log' = Append(log, Attempt("drain", pending[pi].activity_id, "store_error"))
    /\ pc' = "drain_result"
    /\ calls' = <<Call("oracle", pending[pi].activity_id),
                  Call("sqlite_error", pending[pi].activity_id)>>
    /\ oracle_failures' = CountOracleCall(oracle_failures, pending[pi].activity_id, FALSE)
    /\ UNCHANGED <<strava, traffic_comparisons, pending_captures, online, pending, pi,
                   activities, ai, last_processed, exhausted, trigger, recapture,
                   probe, backfill>>

\* line 231 or line 237 raises: the handler of lines 240-242 calls
\* increment_retry_count and the loop goes on without the sleep; when that
\* call raises too, the exception leaves process_pending_captures
DrainUpdateFails ==
    /\ pc = "drain_result"
    /\ ~faulted
    /\ faulted' = TRUE
    /\ \E handled \in BOOLEAN :
          IF handled
          THEN /\ pending_captures' =
                     increment_retry_count(pending_captures, pending[pi].activity_id)
               /\ pi' = pi + 1
               /\ pc' = "drain"
               /\ calls' = <<Call("sqlite_error", pending[pi].activity_id)>>
          ELSE /\ pc' = check_for_new_activities_except
               /\ calls' = <<Call("sqlite_error", pending[pi].activity_id),
                             Call("sqlite_error", pending[pi].activity_id)>>
               /\ UNCHANGED <<pending_captures, pi>>
    /\ exhausted' = exhausted \cup Abandoned(pending_captures')
    /\ log' = Append(log, Attempt("handler", pending[pi].activity_id, "update_error"))
    /\ UNCHANGED <<strava, traffic_comparisons, online, pending, comparison, activities,
                   ai, last_processed, oracle_failures, trigger, recapture,
                   probe, backfill>>

\* line 457: get_last_processed_activity raises
WatermarkFails ==
    /\ pc = "drain"
    /\ ~faulted
    /\ faulted' = TRUE
    /\ pi > Len(pending)
    /\ \E listed \in Perms({ id \in DOMAIN strava : InWindow(strava[id]) }) :
          /\ listed # <<>>
          /\ activities' = listed
    /\ pc' = check_for_new_activities_except
    /\ calls' = <<Call("activities", 0), Call("sqlite_error", 0)>>
    /\ log' = Append(log, Attempt("cycle", 0, "read_error"))
    /\ UNCHANGED <<strava, traffic_comparisons, pending_captures, online, pending, pi,
                   comparison, ai, last_processed, oracle_failures, exhausted, trigger, recapture,
                   probe, backfill>>

\* a discovery iteration in which a write raises: store_traffic_comparison
\* after the Oracle answered (line 421, caught at 427, the activity is then
\* queued), or the INSERT of store_pending_activity (caught at 172)
DiscoverStoreFails ==
    /\ pc = "discover"
    /\ ~faulted
    /\ faulted' = TRUE
    /\ ai <= Len(activities)
    /\ ~AlreadyProcessed(activities[ai], last_processed)
    /\ LET activity == strava[activities[ai]] IN
          /\ HasCoordinates(activity)
          /\ \E response \in Responses, queued \in BOOLEAN :
                /\ get_route_time(response).error => ~queued
                /\ oracle_failures' =
                      CountOracleCall(oracle_failures, activity.id, get_route_time(response).error)
                /\ pending_captures' =
                      IF queued THEN store_pending_activity(pending_captures, activity)
                      ELSE pending_captures
                /\ log' = Append(log, Attempt("discovery", activity.id,
                                              IF get_route_time(response).error
                                              THEN "queue_error" ELSE "store_error"))
          /\ calls' = <<Call("details", activity.id), Call("oracle", activity.id),
                        Call("sqlite_error", activity.id), Call("sleep", 0)>>
    /\ ai' = ai + 1
    /\ UNCHANGED <<strava, traffic_comparisons, pc, online, pending, pi, comparison,
                   activities, last_processed, exhausted, trigger, recapture,
                   probe, backfill>>

\* the run is followed up to the end of the first cycle in which a statement
\* of the store raised
SleepAfterCleanCycle == ~StoreErrorLogged /\ Sleep

NextStoreFault ==
    \/ RideFinishes
    \/ CheckConnection
    \/ DrainCapture
    \/ DrainRemove
    \/ DrainIncrement
    \/ Poll
    \/ DiscoverSkip
    \/ DiscoverCapture
    \/ Return
    \/ SleepAfterCleanCycle
    \/ GetPendingFails
    \/ DrainStoreFails
    \/ DrainUpdateFails
    \/ WatermarkFails
    \/ DiscoverStoreFails

SpecStoreFault == Init /\ [][NextStoreFault]_vars

\* ---- a successful capture, with the columns id and captured_at -----------
\* An id is captured first by either path; it is captured once more by the
\* drain when the discovery captured it while its pending row was queued.
Recapture ==
    /\ \E id \in 1..MaxRides, m \in MovingTimes, response \in Responses,
          elapsed \in 1..2, path \in {"discovery", "drain"} :
          LET route_data == get_route_time(response)
              activity == [id |-> id, start_latlng |-> TRUE, end_latlng |-> TRUE,
                           moving_time |-> m, age |-> 0]
              now == recapture.now + elapsed
              row == IF path = "discovery"
                     THEN capture_traffic_for_activity(activity, route_data, now)
                     ELSE capture_traffic_for_pending(PendingRow(activity), route_data, now)
              prior == { r \in recapture.table : r.activity_id = id }
              upstream == [moving_time |-> m, response |-> response, path |-> path]
              table == insert_or_replace(recapture.table, row, recapture.seq + 1)
          IN  /\ ~route_data.error
              /\ prior # {} => (path = "drain" /\ recapture.upstream[id].path = "discovery")
              /\ recapture' =
                    [table |-> table,
                     now |-> now,
                     seq |-> recapture.seq + 1,
                     upstream |-> (id :> upstream) @@ recapture.upstream,
                     last |-> IF prior = {} THEN <<>>
                              ELSE <<[before |-> CHOOSE r \in prior : TRUE,
                                      after |-> CHOOSE r \in table : r.activity_id = id,
                                      same_upstream |->
                                         /\ recapture.upstream[id].moving_time = m
                                         /\ recapture.upstream[id].response = response]>>]
    /\ UNCHANGED <<strava, traffic_comparisons, pending_captures, pc, online, pending, pi,
                   comparison, activities, ai, last_processed, calls, log, oracle_failures,
                   exhausted, trigger, probe, backfill, faulted>>

NextRecapture == Recapture

SpecRecapture == Init /\ [][NextRecapture]_vars

\* ---- the Oracle adapter on its own (src/traffic_comparison.py) ----------
\* legs of a route: free-flow duration, and traffic-aware duration or none
ProbeLegs ==
    { [duration |-> f, duration_in_traffic |-> t] :
        f \in 0..MaxDuration, t \in {NoTraffic} \cup 0..MaxDuration }

\* every outcome of requests.get: an exception, or an HTTP status with a body
UpstreamResponses ==
    { [exception |-> TRUE, status_code |-> 0, status |-> "", routes |-> <<>>] }
    \cup { [exception |-> FALSE, status_code |-> c, status |-> s, routes |-> r] :
             c \in {200, 500},
             s \in {"OK", "ZERO_RESULTS", "OVER_QUERY_LIMIT"},
             r \in {<<>>} \cup { <<l>> : l \in ProbeLegs } }

AnalyzeTraffic ==
    /\ probe = NotCalled
    /\ \E leg \in ProbeLegs :
          probe' = [op |-> "_analyze_traffic", leg |-> leg, label |-> _analyze_traffic(leg)]
    /\ UNCHANGED <<strava, traffic_comparisons, pending_captures, pc, online, pending, pi,
                   comparison, activities, ai, last_processed, calls, log, oracle_failures,
                   exhausted, trigger, recapture, backfill, faulted>>

GetRouteTime ==
    /\ probe = NotCalled
    /\ \E response \in UpstreamResponses :
          probe' = [op |-> "get_route_time", response |-> response,
                    result |-> get_route_time(response)]
    /\ UNCHANGED <<strava, traffic_comparisons, pending_captures, pc, online, pending, pi,
                   comparison, activities, ai, last_processed, calls, log, oracle_failures,
                   exhausted, trigger, recapture, backfill, faulted>>

NextAdapter == AnalyzeTraffic \/ GetRouteTime

SpecAdapter == Init /\ [][NextAdapter]_vars

\* ---- the metrics of a capture (src/strava_monitor.py) -------------------
\* Minutes and miles are whole numbers here and a / b is the integer quotient.

\* lines 154 and 397: distance_miles = distance_meters * 0.000621371
distance_miles(distance_meters) == (distance_meters * 621) \div 1000000

\* lines 155, 265, 398 and 399: distance_miles / (minutes / 60.0) if minutes > 0 else 0
speed_mph(miles, minutes) == IF minutes > 0 THEN (miles * 60) \div minutes ELSE 0

time_saved_percentage_fraction(time_saved_minutes, car_time_minutes) ==
    IF car_time_minutes > 0 THEN time_saved_minutes \div car_time_minutes ELSE 0

\* lines 261 and 395: (time_saved_minutes / car_time_minutes) * 100 if car_time_minutes > 0 else 0
time_saved_percentage(time_saved_minutes, car_time_minutes) ==
    IF car_time_minutes > 0 THEN (time_saved_minutes * 100) \div car_time_minutes ELSE 0

\* lines 153-167: the columns distance_miles and bike_speed_mph of a pending row
PendingRowMetrics(activity) ==
    PendingRow(activity) @@
    [distance_miles |-> distance_miles(activity.distance),
     bike_speed_mph |-> speed_mph(distance_miles(activity.distance), activity.moving_time \div 60)]

\* lines 392-423: the discovery path's row with its derived columns
capture_traffic_for_activity_metrics(activity, route_data, now) ==
    LET row == capture_traffic_for_activity(activity, route_data, now) IN
    row @@
    [time_saved_percentage |-> time_saved_percentage(row.time_saved_minutes, row.car_time_minutes),
     distance_miles |-> distance_miles(activity.distance),
     bike_speed_mph |-> speed_mph(distance_miles(activity.distance), row.bike_time_minutes),
     car_speed_mph |-> speed_mph(distance_miles(activity.distance), row.car_time_minutes)]

\* lines 258-288: the drain path's row; distance and bike speed come from the pending row
capture_traffic_for_pending_metrics(pending_activity, route_data, now) ==
    LET row == capture_traffic_for_pending(pending_activity, route_data, now) IN
    row @@
    [time_saved_percentage |-> time_saved_percentage(row.time_saved_minutes, row.car_time_minutes),
     distance_miles |-> pending_activity.distance_miles,
     bike_speed_mph |-> pending_activity.bike_speed_mph,
     car_speed_mph |-> speed_mph(pending_activity.distance_miles, row.car_time_minutes)]

\* value domains of one capture: moving_time (seconds), distance (meters) and
\* the leg of the route, a zero of each included
MetricMovingTimes == {0, 600, 1800, 3600}
MetricDistances == {0, 8047, 16093}
MetricLegs == { [duration |-> f, duration_in_traffic |-> NoTraffic] : f \in {0, 600, 1200, 2400, 3600} }

CaptureMetrics ==
    /\ probe = NotCalled
    /\ \E path \in {"drain", "discovery"}, m \in MetricMovingTimes, d \in MetricDistances,
          leg \in MetricLegs :
          LET activity == [id |-> 1, start_latlng |-> TRUE, end_latlng |-> TRUE,
                           moving_time |-> m, distance |-> d]
              route_data == get_route_time([exception |-> FALSE, status_code |-> 200,
                                            status |-> "OK", routes |-> <<leg>>])
          IN  probe' = [op |-> "capture", path |-> path, activity |-> activity, leg |-> leg,
                        row |-> IF path = "discovery"
                                THEN capture_traffic_for_activity_metrics(activity, route_data, 1)
                                ELSE capture_traffic_for_pending_metrics(
                                         PendingRowMetrics(activity), route_data, 1)]
    /\ UNCHANGED <<strava, traffic_comparisons, pending_captures, pc, online, pending, pi,
                   comparison, activities, ai, last_processed, calls, log, oracle_failures,
                   exhausted, trigger, recapture, backfill, faulted>>

NextMetrics == CaptureMetrics

SpecMetrics == Init /\ [][NextMetrics]_vars

\* ---- the one-shot historical capture (src/capture_historical_traffic.py) -
\* The script runs on a database in which earlier captures have left rows
\* for some of the rides of the last 30 days; the monitor is not running.
RideShapes == [start_latlng : BOOLEAN, end_latlng : BOOLEAN, moving_time : MovingTimes]

\* the directions API answering OK with one route
Answered(leg) == [exception |-> FALSE, status_code |-> 200, status |-> "OK", routes |-> <<leg>>]

InitBackfill ==
    /\ \E n \in 0..MaxRides :
       \E shapes \in [1..n -> RideShapes] :
       \E captured \in SUBSET (1..n) :
       \E legs \in [captured -> Legs] :
          /\ \A id \in captured : HasCoordinates(shapes[id])
          /\ strava = [id \in 1..n |->
                         [id |-> id, start_latlng |-> shapes[id].start_latlng,
                          end_latlng |-> shapes[id].end_latlng,
                          moving_time |-> shapes[id].moving_time, age |-> LookBackIntervals]]
          /\ traffic_comparisons =
                { StoredTrafficComparison(id, shapes[id].moving_time \div 60,
                                          get_route_time(Answered(legs[id]))) : id \in captured }
    /\ pending_captures = <<>>
    /\ pc = "idle"
    /\ online = FALSE
    /\ pending = <<>>
    /\ pi = 1
    /\ comparison = FALSE
    /\ activities = <<>>
    /\ ai = 1
    /\ last_processed = 0
    /\ calls = <<>>
    /\ log = <<>>
    /\ oracle_failures = <<>>
    /\ exhausted = {}
    /\ trigger = NotTriggered
    /\ recapture = NothingCaptured
    /\ probe = NotCalled
    /\ backfill = NotStarted
    /\ faulted = FALSE

\* lines 41-52: get_activities(after = now - days_back); an exception goes to
\* the handler of line 88, an empty list returns
BackfillList ==
    /\ backfill.pc = "idle"
    /\ \/ /\ backfill' = [backfill EXCEPT !.pc = "returned"]
          /\ log' = Append(log, Attempt("backfill", 0, "list_error"))
       \/ \E listed \in Perms(DOMAIN strava) :
             /\ backfill' = [backfill EXCEPT !.pc = IF listed = <<>> THEN "returned" ELSE "loop",
                                             !.activities = listed]
             /\ log' = log
    /\ calls' = <<Call("activities", 0)>>
    /\ UNCHANGED <<strava, traffic_comparisons, pending_captures, pc, online, pending, pi,
                   comparison, activities, ai, last_processed, oracle_failures, exhausted,
                   trigger, recapture, probe, faulted>>

already_captured_never(existing, activity_id) == FALSE

\* lines 62-63: any(comp.activity_id == activity_id for comp in existing)
already_captured(existing, activity_id) == \E comp \in existing : comp.activity_id = activity_id

\* lines 61-66: the activity has a row in get_all_comparisons()
BackfillSkip ==
    /\ backfill.pc = "loop"
    /\ backfill.i <= Len(backfill.activities)
    /\ already_captured(traffic_comparisons, backfill.activities[backfill.i])
    /\ backfill' = [backfill EXCEPT !.skipped_count = @ + 1, !.i = @ + 1]
    /\ log' = Append(log, Attempt("backfill", backfill.activities[backfill.i], "skipped"))
    /\ calls' = <<>>
    /\ UNCHANGED <<strava, traffic_comparisons, pending_captures, pc, online, pending, pi,
                   comparison, activities, ai, last_processed, oracle_failures, exhausted,
                   trigger, recapture, probe, faulted>>

\* lines 69-79: capture_traffic_for_activity, the counts, the sleep; a failed
\* capture is printed and nothing else
BackfillCapture ==
    /\ backfill.pc = "loop"
    /\ backfill.i <= Len(backfill.activities)
    /\ ~already_captured(traffic_comparisons, backfill.activities[backfill.i])
    /\ LET activity == strava[backfill.activities[backfill.i]] IN
       \/ \* get_activity_details raises or answers nothing
          /\ log' = Append(log, Attempt("backfill", activity.id, "details_error"))
          /\ calls' = <<Call("details", activity.id), Call("sleep", 0)>>
          /\ backfill' = [backfill EXCEPT !.i = @ + 1]
          /\ UNCHANGED traffic_comparisons
       \/ /\ ~HasCoordinates(activity)
          /\ log' = Append(log, Attempt("backfill", activity.id, "no_coordinates"))
          /\ calls' = <<Call("details", activity.id), Call("sleep", 0)>>
          /\ backfill' = [backfill EXCEPT !.i = @ + 1]
          /\ UNCHANGED traffic_comparisons
       \/ /\ HasCoordinates(activity)
          /\ \E response \in Responses :
                LET route_data == get_route_time(response) IN
                IF route_data.error
                THEN /\ log' = Append(log, Attempt("backfill", activity.id, "oracle_error"))
                     /\ backfill' = [backfill EXCEPT !.i = @ + 1]
                     /\ UNCHANGED traffic_comparisons
                ELSE /\ traffic_comparisons' =
                           store_traffic_comparison(traffic_comparisons,
                              StoredTrafficComparison(activity.id, activity.moving_time \div 60,
                                                      route_data))
                     /\ log' = Append(log, Attempt("backfill", activity.id, "captured"))
                     /\ backfill' = [backfill EXCEPT !.captured_count = @ + 1, !.i = @ + 1]
          /\ calls' = <<Call("details", activity.id), Call("oracle", activity.id), Call("sleep", 0)>>
    /\ UNCHANGED <<strava, pending_captures, pc, online, pending, pi,
                   comparison, activities, ai, last_processed, oracle_failures, exhausted,
                   trigger, recapture, probe, faulted>>

\* lines 81-87: the summary is printed and the function returns
BackfillReturn ==
    /\ backfill.pc = "loop"
    /\ backfill.i > Len(backfill.activities)
    /\ backfill' = [backfill EXCEPT !.pc = "returned"]
    /\ calls' = <<>>
    /\ UNCHANGED <<strava, traffic_comparisons, pending_captures, pc, online, pending, pi,
                   comparison, activities, ai, last_processed, log, oracle_failures, exhausted,
                   trigger, recapture, probe, faulted>>

NextBackfill == BackfillList \/ BackfillSkip \/ BackfillCapture \/ BackfillReturn

SpecBackfill == InitBackfill /\ [][NextBackfill]_vars

\* ---- the monitor's run with every kind of failure -----------------------
\* The Oracle, the ride source and the network probe may fail at every call,
\* and one statement of the store raises sqlite3.Error somewhere in the run.
\* Every ride has a start and an end position, so that every ride reaches the
\* Oracle and the store.  The run is followed through the cycle in which the
\* statement raised, the sleep after it and the connectivity check of the
\* next cycle.
RideWithRouteFinishes == RideFinishes /\ HasCoordinates(strava'[Len(strava')])

Followed == faulted => StoreErrorLogged

DrainCaptureFollowed == Followed /\ DrainCapture

PollFollowed == Followed /\ Poll

PollFailsFollowed == Followed /\ PollFails

SleepFollowed == Followed /\ Sleep

NextRecover ==
    \/ RideWithRouteFinishes
    \/ CheckConnection
    \/ DrainCaptureFollowed
    \/ DrainRemove
    \/ DrainIncrement
    \/ PollFollowed
    \/ PollFailsFollowed
    \/ DiscoverSkip
    \/ DiscoverDetailsFail
    \/ DiscoverCapture
    \/ Return
    \/ SleepFollowed
    \/ GetPendingFails
    \/ DrainStoreFails
    \/ DrainUpdateFails
    \/ WatermarkFails
    \/ DiscoverStoreFails

SpecRecover == Init /\ [][NextRecover]_vars

\* ---- vocabulary of the properties ---------------------------------------
CycleEnded == pc \in {"returned", "failed"}

BothCoordinates(id) == strava[id].start_latlng /\ strava[id].end_latlng

ComparisonRows(table, id) == { r \in table : r.activity_id = id }

PendingRows(table, id) == { i \in 1..Len(table) : table[i].activity_id = id }

RetryCountOf(table, id) == table[CHOOSE i \in PendingRows(table, id) : TRUE].retry_count

OracleCalled(trace, id) == \E i \in 1..Len(trace) : trace[i] = Call("oracle", id)

\* C1: a finished ride with both coordinates is never silently lost: after
\* any run of offline cycles, once an online cycle has polled the ride source
\* and returned, every ride that was finished before that cycle began has a
\* row in traffic_comparisons or in pending_captures.
C1_NeverLost ==
    (pc = "returned" /\ online) =>
        \A id \in DOMAIN strava :
            (BothCoordinates(id) /\ strava[id].age >= 1) =>
                id \in ComparisonIds \cup PendingIds

\* C2: at the end of an online cycle that ran to completion, and after every
\* iteration of its discovery loop, each polled activity already passed by
\* the loop that has both coordinates and an id above the watermark has a row
\* in traffic_comparisons or in pending_captures.
C2_DiscoveredKept ==
    (pc \in {"discover", "returned"} /\ online) =>
        \A i \in 1..Len(activities) :
            (i < ai /\ BothCoordinates(activities[i]) /\ activities[i] > last_processed) =>
                activities[i] \in ComparisonIds \cup PendingIds

C2_Witness ==
    /\ pc = "returned"
    /\ online
    /\ \E i \in 1..Len(log) :
          /\ log[i] = Attempt("discovery", log[i].id, "oracle_error")
          /\ log[i].id \in PendingIds
          /\ log[i].id \notin ComparisonIds

\* C3: while the Oracle calls of a pending activity keep failing (it never
\* gets a comparison row), its row stays in pending_captures, each step
\* leaves its retry_count alone or raises it by one (0, 1, 2, 3), and once
\* the count is 3 the row is left as it is and no Oracle call is made for it.
C3_RetryAccumulates ==
    [][\A id \in PendingIds :
          id \notin { r.activity_id : r \in traffic_comparisons' } =>
             /\ PendingRows(pending_captures', id) # {}
             /\ RetryCountOf(pending_captures', id) \in
                   { RetryCountOf(pending_captures, id), RetryCountOf(pending_captures, id) + 1 }
             /\ RetryCountOf(pending_captures, id) >= RetryBound =>
                   /\ RetryCountOf(pending_captures', id) = RetryCountOf(pending_captures, id)
                   /\ ~OracleCalled(calls', id)]_vars

\* C4: a cycle whose connectivity probe finds the network unreachable ends
\* at the probe: the monitor returns at once, no Oracle, ride-source list or
\* ride-source detail call is made, no enrichment is attempted, and both
\* tables (every retry_count included) are exactly as before.
C4_OfflineNoOp ==
    [][(pc = "idle" /\ pc' # "idle" /\ ~online') =>
          /\ pc' = "returned"
          /\ traffic_comparisons' = traffic_comparisons
          /\ pending_captures' = pending_captures
          /\ \A i \in 1..Len(calls') : calls'[i].op \notin {"oracle", "activities", "details"}
          /\ log' = <<>>]_vars

C4_Witness ==
    /\ pc = "returned"
    /\ ~online
    /\ calls = <<Call("google", 0)>>
    /\ traffic_comparisons # {}
    /\ \E i \in 1..Len(pending_captures) :
          pending_captures[i].retry_count \in 1..(RetryBound - 1)

\* C5: the watermark of a cycle is the largest activity id in
\* traffic_comparisons when discovery starts (none when the table is empty),
\* and a discovery iteration over an activity whose id is at or below it
\* makes no ride-source or Oracle call and writes neither table.
C5_Dedup ==
    [][/\ (pc = "drain" /\ pc' = "discover") =>
             IF traffic_comparisons = {}
             THEN last_processed' = 0
             ELSE /\ last_processed' \in { r.activity_id : r \in traffic_comparisons }
                  /\ \A r \in traffic_comparisons : r.activity_id <= last_processed'
       /\ (pc = "discover" /\ ai' = ai + 1 /\ last_processed # 0
              /\ activities[ai] <= last_processed) =>
             /\ calls' = <<>>
             /\ traffic_comparisons' = traffic_comparisons
             /\ pending_captures' = pending_captures]_vars

C5_Witness ==
    /\ pc = "discover"
    /\ ai > 1
    /\ log[Len(log)] = Attempt("discovery", activities[ai - 1], "skipped")
    /\ activities[ai - 1] = last_processed
    /\ activities[ai - 1] \in ComparisonIds
    /\ pending_captures # <<>>

\* C6: at the end of a cycle, an activity that the cycle enriched
\* successfully, by the drain or by the discovery path, after fewer than 3
\* failures has exactly one row in traffic_comparisons and no row (none that
\* is still below the retry bound) in pending_captures.
C6_SuccessClearsPending ==
    CycleEnded =>
        \A i \in 1..Len(log) :
            log[i].result = "captured" =>
                /\ Cardinality(ComparisonRows(traffic_comparisons, log[i].id)) = 1
                /\ \A j \in PendingRows(pending_captures, log[i].id) :
                      pending_captures[j].retry_count >= RetryBound

\* the four places of the data-model invariant
InComparison(id) == ComparisonRows(traffic_comparisons, id) # {}

PendingBelowBound(id) ==
    \E j \in PendingRows(pending_captures, id) : pending_captures[j].retry_count < RetryBound

PendingAbandoned(id) ==
    \E j \in PendingRows(pending_captures, id) : pending_captures[j].retry_count >= RetryBound

PermanentlySkipped(id) ==
    ~BothCoordinates(id) /\ ~InComparison(id) /\ PendingRows(pending_captures, id) = {}

Places(id) ==
    { k \in 1..4 : \/ k = 1 /\ InComparison(id)
                   \/ k = 2 /\ PendingBelowBound(id)
                   \/ k = 3 /\ PendingAbandoned(id)
                   \/ k = 4 /\ PermanentlySkipped(id) }

\* C7: at the end of every cycle each activity that has a row in a table or
\* was taken up by the discovery loop of the cycle is in exactly one of:
\* traffic_comparisons, pending_captures below the bound, pending_captures at
\* or above the bound, permanently skipped; no id has a row in both tables.
C7_ExactlyOnePlace ==
    CycleEnded =>
        /\ ComparisonIds \cap PendingIds = {}
        /\ \A id \in DOMAIN strava :
              (\/ id \in ComparisonIds \cup PendingIds
               \/ \E i \in 1..Len(log) : log[i].id = id /\ log[i].result # "skipped") =>
                 Cardinality(Places(id)) = 1

\* C8: an activity without start or without end coordinates never has a row
\* in traffic_comparisons or pending_captures, and no step makes an Oracle
\* call or records an Oracle attempt for it.
C8_NoCoordinatesNoRow ==
    \A id \in DOMAIN strava :
        ~(strava[id].start_latlng /\ strava[id].end_latlng) =>
            /\ ComparisonRows(traffic_comparisons, id) = {}
            /\ PendingRows(pending_captures, id) = {}
            /\ ~OracleCalled(calls, id)
            /\ \A i \in 1..Len(log) :
                  log[i].id = id => log[i].result \notin {"captured", "oracle_error"}

C8_Witness ==
    /\ pc = "returned"
    /\ \E i \in 1..Len(log) :
          /\ log[i].result = "no_coordinates"
          /\ strava[log[i].id].start_latlng
          /\ ~strava[log[i].id].end_latlng
          /\ log[i].id \notin ComparisonIds \cup PendingIds

\* C9: in the drain phase a successful Oracle call for a pending row leaves
\* exactly one traffic_comparisons row for that activity id, built from the
\* pending row and the route, and changes no other comparison row or any
\* pending row; the step after it deletes that id's pending row and changes
\* no other pending row and no comparison row.
C9_DrainSuccess ==
    [][/\ (pc = "drain" /\ pc' = "drain_result" /\ comparison') =>
             LET id == pending[pi].activity_id IN
             /\ { r \in traffic_comparisons' : r.activity_id # id }
                   = { r \in traffic_comparisons : r.activity_id # id }
             /\ Cardinality(ComparisonRows(traffic_comparisons', id)) = 1
             /\ \A r \in ComparisonRows(traffic_comparisons', id) :
                   /\ r.bike_time_minutes = pending[pi].bike_time_minutes
                   /\ r.time_saved_minutes = r.car_time_minutes - r.bike_time_minutes
             /\ pending_captures' = pending_captures
       /\ (pc = "drain_result" /\ comparison /\ pc' = "drain") =>
             LET id == pending[pi].activity_id IN
             /\ traffic_comparisons' = traffic_comparisons
             /\ PendingRows(pending_captures, id) # {}
             /\ PendingRows(pending_captures', id) = {}
             /\ pending_captures' = SelectSeq(pending_captures, LAMBDA r : r.activity_id # id)]_vars

C9_Witness ==
    /\ pc = "drain"
    /\ pi > 1
    /\ log[Len(log)] = Attempt("drain", pending[pi - 1].activity_id, "captured")
    /\ calls = <<Call("sleep", 0)>>
    /\ pending[pi - 1].activity_id \in ComparisonIds
    /\ pending[pi - 1].activity_id \notin PendingIds
    /\ pending_captures # <<>>
    /\ Cardinality(traffic_comparisons) > 1

\* C10: in the drain phase a failed Oracle call for a pending row changes
\* neither table, and the step after it raises that row's retry_count by
\* exactly 1, keeps the row, its position and its other fields, and changes
\* no other pending row and no comparison row.
C10_DrainFailure ==
    [][/\ (pc = "drain" /\ pc' = "drain_result" /\ ~comparison') =>
             /\ traffic_comparisons' = traffic_comparisons
             /\ pending_captures' = pending_captures
       /\ (pc = "drain_result" /\ ~comparison /\ pc' = "drain") =>
             LET id == pending[pi].activity_id IN
             /\ traffic_comparisons' = traffic_comparisons
             /\ PendingRows(pending_captures, id) # {}
             /\ Len(pending_captures') = Len(pending_captures)
             /\ \A j \in 1..Len(pending_captures) :
                   IF pending_captures[j].activity_id = id
                   THEN /\ pending_captures'[j].retry_count = pending_captures[j].retry_count + 1
                        /\ pending_captures'[j].activity_id = id
                        /\ pending_captures'[j].bike_time_minutes
                              = pending_captures[j].bike_time_minutes
                   ELSE pending_captures'[j] = pending_captures[j]]_vars

C10_Witness ==
    /\ pc = "drain"
    /\ pi > 1
    /\ log[Len(log)] = Attempt("drain", pending[pi - 1].activity_id, "oracle_error")
    /\ calls = <<Call("sleep", 0)>>
    /\ Len(pending_captures) > 1
    /\ traffic_comparisons # {}
    /\ \E j \in PendingRows(pending_captures, pending[pi - 1].activity_id) :
          pending_captures[j].retry_count = pending[pi - 1].retry_count + 1

\* ---- claims C11 to C20 --------------------------------------------------
LastAttempt(trace) == trace[Len(trace)]

DiscoveryFailed(before, after) ==
    /\ Len(after) = Len(before) + 1
    /\ LastAttempt(after).path = "discovery"
    /\ LastAttempt(after).result \in {"oracle_error", "details_error"}

\* C11: when the enrichment of a new activity with both coordinates fails in
\* the discovery phase (the Oracle answers with an error, or a call raises),
\* a pending_captures row for the activity exists afterwards with
\* retry_count 0, and the attempt writes no traffic_comparisons row.
C11_DiscoveryFailureQueued ==
    [][ (DiscoveryFailed(log, log') /\ BothCoordinates(LastAttempt(log').id))
        => LET id == LastAttempt(log').id IN
           /\ PendingRows(pending_captures', id) # {}
           /\ \A i \in PendingRows(pending_captures', id) :
                 pending_captures'[i].retry_count = 0
           /\ traffic_comparisons' = traffic_comparisons ]_vars

\* a discovery failure has just re-queued a ride whose drain retry failed
\* earlier in the same cycle
C11_Witness ==
    /\ pc = "discover"
    /\ log # <<>>
    /\ LastAttempt(log).path = "discovery"
    /\ LastAttempt(log).result = "oracle_error"
    /\ \E i \in 1..Len(log) :
          log[i] = Attempt("drain", LastAttempt(log).id, "oracle_error")
    /\ PendingRows(pending_captures, LastAttempt(log).id) # {}
    /\ RetryCountOf(pending_captures, LastAttempt(log).id) = 0

\* C12: the Oracle calls made for an activity whose every call fails are
\* bounded by one discovery attempt plus RetryBound drain retries.
C12_RetryBounded ==
    \A id \in DOMAIN oracle_failures : oracle_failures[id] <= 1 + RetryBound

\* C13: once the pending_captures row of an activity has had
\* retry_count >= RetryBound, a pending_captures row for that activity exists
\* in every later state.
C13_AbandonedRetained ==
    \A id \in exhausted : PendingRows(pending_captures, id) # {}

DrainAttempts == SelectSeq(log, LAMBDA a : a.path = "drain")

DiscoveryAttempts == SelectSeq(log, LAMBDA a : a.path = "discovery")

\* C14: a failure while one activity is processed does not keep the rest of
\* the cycle from being attempted: when an online cycle ends, every row of
\* the drained list has been attempted in order, and when the poll answered,
\* every listed activity has been looked at in order, whatever failed before.
C14_FailureIsolated ==
    (CycleEnded /\ online)
    => /\ [i \in 1..Len(DrainAttempts) |-> DrainAttempts[i].id]
             = [i \in 1..Len(pending) |-> pending[i].activity_id]
       /\ pc = "returned"
             => [i \in 1..Len(DiscoveryAttempts) |-> DiscoveryAttempts[i].id] = activities

\* a cycle has ended in which a drain retry failed before another drain
\* retry, and a discovery failed before another new activity was enriched
C14_Witness ==
    /\ pc = "returned"
    /\ \E i, j \in 1..Len(log) :
          /\ i < j
          /\ log[i].path = "drain" /\ log[i].result = "oracle_error"
          /\ log[j].path = "drain"
    /\ \E i, j \in 1..Len(log) :
          /\ i < j
          /\ log[i].path = "discovery" /\ log[i].result \in {"oracle_error", "details_error"}
          /\ log[j].path = "discovery" /\ log[j].result # "skipped"

StoreError(trace) == \E i \in 1..Len(trace) : trace[i].op = "sqlite_error"

\* C15 as stated: when a Durable Store operation fails during a cycle, the
\* cycle ends at that point with the failure raised to its caller.
C15_StoreErrorSurfaced ==
    [][ StoreError(calls') => pc' = "raised" ]_vars

\* C15 amended: when a Durable Store operation fails during a cycle, the
\* failure is caught, never raised to the caller: a failed write of a
\* comparison or of a pending row makes the enrichment count as failed and
\* the cycle goes on with the same activity's bookkeeping and the later
\* activities; a failure outside the per-activity handlers ends the cycle
\* with the empty result.
C15_StoreErrorSwallowed ==
    [][ StoreError(calls')
        => /\ pc' \in {"failed", "drain_result", "drain", "discover"}
           /\ LastAttempt(log').result \in {"store_error", "queue_error"}
                 => /\ pc' \in {"drain_result", "discover"}
                    /\ traffic_comparisons' = traffic_comparisons
                    /\ pi' = pi
                    /\ pc = "discover" => ai' = ai + 1 ]_vars

\* a cycle has returned after a comparison write failed and a later
\* activity was attempted all the same
C15_Witness ==
    /\ pc = "returned"
    /\ \E i, j \in 1..Len(log) :
          /\ i < j
          /\ log[i].result = "store_error"
          /\ log[j].id # log[i].id
          /\ log[j].path = "discovery" /\ log[j].result # "skipped"

\* C16: at most one cycle runs against the store at any time: no run of
\* check_for_new_activities, by the monitor loop or by the manual trigger, is
\* in its drain or discovery while another one is.
C16_OneCycleAtATime == ~(InCycle(pc) /\ InCycle(trigger.pc))

\* C17: an interrupt takes effect only between cycles: the monitor stops
\* from a position outside a cycle, never in the middle of the drain or the
\* discovery, so every write of a started cycle has finished.
C17_InterruptBetweenCycles ==
    [][ pc' = "stopped" => pc \in {"idle", "returned", "failed"} ]_vars

InBoth(id, comparisons, queue) ==
    ComparisonRows(comparisons, id) # {} /\ PendingRows(queue, id) # {}

InNeither(id, comparisons, queue) ==
    ComparisonRows(comparisons, id) = {} /\ PendingRows(queue, id) = {}

\* the comparison of a successful drain retry is written, its pending row
\* not yet deleted
BetweenWriteAndDelete == pc = "drain_result" /\ comparison

\* C18 as stated: an interruption between the comparison write and the
\* pending delete of a successful drain retry can leave the activity in
\* neither table, and it can leave it in both tables.
C18_InterruptLosesOrDuplicates ==
    BetweenWriteAndDelete
    => /\ ENABLED (Interrupt /\ InNeither(pending[pi].activity_id, traffic_comparisons',
                                          pending_captures'))
       /\ ENABLED (Interrupt /\ InBoth(pending[pi].activity_id, traffic_comparisons',
                                       pending_captures'))

\* C18 amended: an interruption between the comparison write and the pending
\* delete of a successful drain retry can leave the activity in both tables,
\* and it cannot leave it in neither table.
C18_InterruptDuplicates ==
    BetweenWriteAndDelete
    => /\ ENABLED (Interrupt /\ InBoth(pending[pi].activity_id, traffic_comparisons',
                                       pending_captures'))
       /\ ~ENABLED (Interrupt /\ InNeither(pending[pi].activity_id, traffic_comparisons',
                                           pending_captures'))

\* the monitor was stopped between the two steps and the activity has a row
\* in both tables
C18_Witness ==
    /\ pc = "stopped"
    /\ LastAttempt(log) = Attempt("interrupt", 0, "drain_result")
    /\ comparison
    /\ InBoth(pending[pi].activity_id, traffic_comparisons, pending_captures)

\* the columns of a stored comparison other than id and captured_at
CaptureFields(row) == [f \in DOMAIN row \ {"id", "captured_at"} |-> row[f]]

\* C19 as stated: capturing an activity id again with the same moving time
\* and the same Oracle response stores a row whose fields are all identical
\* to those of the earlier capture.
C19_RecaptureIdentical ==
    \A i \in 1..Len(recapture.last) :
       recapture.last[i].same_upstream => recapture.last[i].after = recapture.last[i].before

\* C19 amended: capturing an activity id again with the same moving time and
\* the same Oracle response stores a row whose fields other than id and
\* captured_at are identical to those of the earlier capture.
C19_RecaptureSameFields ==
    \A i \in 1..Len(recapture.last) :
       recapture.last[i].same_upstream
       => CaptureFields(recapture.last[i].after) = CaptureFields(recapture.last[i].before)

\* an id captured by the discovery has been captured again by the drain from
\* the same upstream data, at a later time and under a new row id
C19_Witness ==
    /\ recapture.last # <<>>
    /\ recapture.last[1].same_upstream
    /\ recapture.last[1].after.captured_at > recapture.last[1].before.captured_at
    /\ recapture.last[1].after.id > recapture.last[1].before.id
    /\ recapture.last[1].after.traffic_conditions = "Heavy Traffic"

\* C20: in every reachable state each table holds at most one row per
\* activity id: a later capture or re-queue of an id replaces the earlier row.
C20_OneRowPerActivity ==
    \A id \in 1..MaxRides :
       /\ Cardinality(ComparisonRows(traffic_comparisons, id)) <= 1
       /\ Cardinality(PendingRows(pending_captures, id)) <= 1

\* a ride whose pending row was retried by the drain has been re-queued by a
\* discovery failure of the same cycle, next to another queued ride and a
\* stored comparison
C20_Witness ==
    /\ log # <<>>
    /\ LastAttempt(log).path = "discovery"
    /\ LastAttempt(log).result \in {"oracle_error", "details_error"}
    /\ \E i \in 1..Len(log) : log[i].path = "drain" /\ log[i].id = LastAttempt(log).id
    /\ Cardinality(PendingRows(pending_captures, LastAttempt(log).id)) = 1
    /\ Len(pending_captures) = 2
    /\ traffic_comparisons # {}

\* ---- C21 ---------------------------------------------------------------
Labels == {"Heavy Traffic", "Moderate Traffic", "Light Traffic", "Unknown Traffic"}

\* C21: for a free-flow duration f and a traffic-aware duration t the label is
\* Heavy iff t > 1.3 f, Moderate iff 1.1 f < t <= 1.3 f, Light iff t <= 1.1 f,
\* and Unknown iff the leg has no traffic-aware duration; the label is always
\* one of the four.
C21_TrafficLabel ==
    probe.op = "_analyze_traffic" =>
        LET f == probe.leg.duration
            t == probe.leg.duration_in_traffic
            known == t # NoTraffic
        IN  /\ probe.label \in Labels
            /\ probe.label = "Heavy Traffic" <=> (known /\ 10 * t > 13 * f)
            /\ probe.label = "Moderate Traffic" <=> (known /\ 11 * f < 10 * t /\ 10 * t <= 13 * f)
            /\ probe.label = "Light Traffic" <=> (known /\ 10 * t <= 11 * f)
            /\ probe.label = "Unknown Traffic" <=> ~known

\* a leg exactly on the upper threshold (t = 1.3 f) labelled Moderate
C21_Witness ==
    /\ probe.op = "_analyze_traffic"
    /\ probe.leg.duration > 0
    /\ 10 * probe.leg.duration_in_traffic = 13 * probe.leg.duration
    /\ probe.label = "Moderate Traffic"

\* ---- C23 ---------------------------------------------------------------
\* C23: for every upstream outcome the adapter returns an estimate or an error
\* value and raises nothing, and it returns an estimate only when the HTTP
\* status is 200, the body's status is OK and there is at least one route.
C23_AdapterTotal ==
    probe.op = "get_route_time" =>
        /\ DOMAIN probe.result = {"error", "duration_seconds", "traffic_conditions"}
        /\ probe.result.error \in BOOLEAN
        /\ ~probe.result.error <=>
              /\ ~probe.response.exception
              /\ probe.response.status_code = 200
              /\ probe.response.status = "OK"
              /\ probe.response.routes # <<>>

\* HTTP 200 with status OK and no route: an error value
C23_Witness ==
    /\ probe.op = "get_route_time"
    /\ ~probe.response.exception
    /\ probe.response.status_code = 200
    /\ probe.response.status = "OK"
    /\ probe.response.routes = <<>>
    /\ probe.result.error

\* ---- C22 ---------------------------------------------------------------
\* C22: every row written by the drain or by discovery has
\* time_saved = car_time - bike_time, time_saved_percentage =
\* time_saved / car_time * 100 when car_time > 0 and 0 when car_time = 0, and a
\* car speed and a bike speed of 0 when the respective time is 0.
C22_MetricsLaw ==
    probe.op = "capture" =>
        LET row == probe.row
            car == row.car_time_minutes
            bike == row.bike_time_minutes
            saved == row.time_saved_minutes
            pct == row.time_saved_percentage
        IN  /\ saved = car - bike
            /\ car > 0 => (pct * car <= 100 * saved /\ 100 * saved < (pct + 1) * car)
            /\ car = 0 => pct = 0
            /\ car = 0 => row.car_speed_mph = 0
            /\ bike = 0 => row.bike_speed_mph = 0

\* a row of the drain for a ride of positive length whose car time and bike
\* time are both zero
C22_Witness ==
    /\ probe.op = "capture"
    /\ probe.path = "drain"
    /\ probe.row.distance_miles > 0
    /\ probe.row.car_time_minutes = 0
    /\ probe.row.bike_time_minutes = 0
    /\ probe.row.time_saved_percentage = 0

\* ---- C24 ---------------------------------------------------------------
Delayed(trace) == trace # <<>> /\ trace[Len(trace)] = Call("sleep", 0)

\* C24: between two consecutive Oracle calls of a cycle the delay of two
\* seconds occurs, on the success and on the failure paths alike: the step
\* that settles a drain retry and goes on to the next pending row ends with
\* the delay, and so does every discovery step that called the Oracle.
C24_DelayBetweenOracleCalls ==
    [][ /\ (pc = "drain_result" /\ pc' = "drain" /\ pi' <= Len(pending')) => Delayed(calls')
        /\ (pc = "discover" /\ \E id \in DOMAIN strava : OracleCalled(calls', id))
              => Delayed(calls') ]_vars

\* ---- C25 ---------------------------------------------------------------
\* ids captured by the discovery loop of the current cycle
CapturedByDiscovery ==
    { log[i].id : i \in { j \in 1..Len(log) : log[j].path = "discovery" /\ log[j].result = "captured" } }

\* C25: the watermark discovery works with is the greatest activity id that
\* traffic_comparisons held when discovery started, after the drain of the
\* same cycle, and is absent (0) when the table was empty then; it is read
\* anew in every cycle.
C25_WatermarkAtDiscoveryStart ==
    pc = "discover" =>
        LET atStart == ComparisonIds \ CapturedByDiscovery
        IN  last_processed = IF atStart = {} THEN 0 ELSE Max(atStart)

\* discovery runs with a watermark that is the id the drain of this very
\* cycle has just captured
C25_Witness ==
    /\ pc = "discover"
    /\ last_processed # 0
    /\ \E i \in 1..Len(log) :
          log[i] = Attempt("drain", last_processed, "captured")

\* ---- C26 ---------------------------------------------------------------
NetworkCalls(trace) ==
    { i \in 1..Len(trace) : trace[i].op \in {"oracle", "activities", "details"} }

\* C26: an online cycle runs in the order connectivity check, all drain
\* retries, poll, discovery captures: the first external call of a cycle is
\* the probe, nothing reaches the network or changes a table before the probe
\* has answered, the poll is made when every row of the drained list has been
\* retried, and no drain retry follows a discovery attempt.
C26_CycleOrder ==
    [][ /\ (pc = "idle" /\ calls' # <<>>) => calls'[1] = Call("google", 0)
        /\ NetworkCalls(calls') # {} => (pc # "idle" /\ online)
        /\ (traffic_comparisons' # traffic_comparisons \/ pending_captures' # pending_captures)
              => (pc # "idle" /\ online)
        /\ (\E i \in 1..Len(calls') : calls'[i].op = "activities")
              => (Len(DrainAttempts) = Len(pending) /\ DiscoveryAttempts = <<>>)
        /\ \A i, j \in 1..Len(log') :
              (log'[i].path = "discovery" /\ log'[j].path = "drain") => j < i ]_vars

\* a cycle in which a drain retry and then a discovery capture called the Oracle
C26_Witness ==
    \E i, j \in 1..Len(log) :
       /\ i < j
       /\ log[i].path = "drain"
       /\ log[j].path = "discovery"
       /\ log[j].result \in {"captured", "oracle_error"}

\* ---- C27 ---------------------------------------------------------------
\* C27: the drain retries exactly the pending rows whose retry_count was below
\* 3 when the drain started, each of them once: the list is those rows, the
\* Oracle is called for the rows of the list one after the other and for no
\* row whose retry_count is 3 or more, the list does not change during the
\* cycle (a row queued by discovery waits for a later cycle), and when the
\* drain is over every row of the list has exactly one attempt.
C27_DrainExactlyEligible ==
    [][ /\ (pc = "idle" /\ pc' = "drain")
              => pending' = SelectSeq(pending_captures, LAMBDA r : r.retry_count < RetryBound)
        /\ \A id \in DOMAIN strava :
              (pc = "drain" /\ OracleCalled(calls', id))
                 => /\ pi = Len(DrainAttempts) + 1
                    /\ pending[pi].activity_id = id
                    /\ \A k \in 1..Len(DrainAttempts) : DrainAttempts[k].id # id
                    /\ PendingRows(pending_captures, id) # {}
                    /\ RetryCountOf(pending_captures, id) < RetryBound
        /\ pc \in {"drain", "drain_result", "discover"} => pending' = pending
        /\ (pc = "drain" /\ pc' \notin {"drain", "drain_result"})
              => /\ Len(DrainAttempts) = Len(pending)
                 /\ \A k \in 1..Len(pending) : DrainAttempts[k].id = pending[k].activity_id ]_vars

\* a cycle has ended in which one pending row was retried while a row with
\* retry_count 3 was left alone
C27_Witness ==
    /\ pc = "returned"
    /\ DrainAttempts # <<>>
    /\ \E i \in 1..Len(pending_captures) :
          /\ pending_captures[i].retry_count >= RetryBound
          /\ \A k \in 1..Len(log) : log[k].id # pending_captures[i].activity_id

\* ---- C28 ---------------------------------------------------------------
\* the attempts of discovery on activities that passed the watermark filter
Processed == SelectSeq(DiscoveryAttempts, LAMBDA a : a.result # "skipped")

\* C28: discovery processes the activities that remain after the watermark
\* filter in ascending order of their ids, whatever the order in which the
\* ride source listed them.
C28_AscendingOrder ==
    \A i, j \in 1..Len(Processed) : i < j => Processed[i].id < Processed[j].id

\* ---- C29 ---------------------------------------------------------------
\* C29: when the one-shot historical capture returns, every activity with
\* both coordinates whose enrichment failed in that run has a row in
\* pending_captures with retry_count 0.
C29_BackfillFailureQueued ==
    backfill.pc = "returned" =>
        \A k \in 1..Len(log) :
           (/\ log[k].path = "backfill"
            /\ log[k].result \in {"oracle_error", "details_error"}
            /\ BothCoordinates(log[k].id))
              => /\ PendingRows(pending_captures, log[k].id) # {}
                 /\ RetryCountOf(pending_captures, log[k].id) = 0

\* ---- C30 ---------------------------------------------------------------
\* C30: the historical capture makes no Oracle call for an activity whose id
\* has a row in traffic_comparisons when the loop reaches it: the activity is
\* counted as already captured and the table keeps its rows as they are.
C30_BackfillSkipsCaptured ==
    [][ \A id \in DOMAIN strava :
           (/\ backfill.pc = "loop"
            /\ backfill.i <= Len(backfill.activities)
            /\ backfill.activities[backfill.i] = id
            /\ id \in ComparisonIds
            /\ backfill' # backfill)
              => /\ ~OracleCalled(calls', id)
                 /\ backfill'.skipped_count = backfill.skipped_count + 1
                 /\ backfill'.captured_count = backfill.captured_count
                 /\ backfill'.i = backfill.i + 1
                 /\ traffic_comparisons' = traffic_comparisons ]_vars

\* a run that has skipped one activity as already captured and captured another
C30_Witness ==
    /\ backfill.pc = "returned"
    /\ backfill.skipped_count > 0
    /\ backfill.captured_count > 0
    /\ \E k \in 1..Len(log) : log[k].result = "skipped" /\ log[k].id \in ComparisonIds

\* ---- C31 ---------------------------------------------------------------
\* C31: while an activity has a row in pending_captures, the retry_count of
\* that row never decreases; no step of a cycle, the re-queue by discovery of
\* an id that is already pending included, resets or lowers it.
C31_RetryCountMonotone ==
    [][ \A id \in DOMAIN strava :
           (PendingRows(pending_captures, id) # {} /\ PendingRows(pending_captures', id) # {})
              => RetryCountOf(pending_captures', id) >= RetryCountOf(pending_captures, id) ]_vars

\* ---- C32 ---------------------------------------------------------------
\* C32: with one monitor, the retry_count of every pending row is between 0
\* and 3 in every state: a row's count is raised by one at a time, at most
\* once per cycle (after the one drain attempt the cycle made for it), and
\* never once it has reached 3.
C32_RetryCountRange ==
    [][ /\ \A i \in 1..Len(pending_captures') :
              pending_captures'[i].retry_count \in 0..3
        /\ \A id \in DOMAIN strava :
              (/\ PendingRows(pending_captures, id) # {}
               /\ PendingRows(pending_captures', id) # {}
               /\ RetryCountOf(pending_captures', id) > RetryCountOf(pending_captures, id))
                 => /\ RetryCountOf(pending_captures', id) = RetryCountOf(pending_captures, id) + 1
                    /\ RetryCountOf(pending_captures, id) < 3
                    /\ Cardinality({ k \in 1..Len(DrainAttempts) : DrainAttempts[k].id = id }) = 1
                    /\ LastAttempt(log) = Attempt("drain", id, "oracle_error") ]_vars

\* a row has reached retry_count 3 and a later cycle, which found the network
\* reachable and drained its list, has left it at 3
C32_Witness ==
    /\ pc = "returned"
    /\ online
    /\ \E i \in 1..Len(pending_captures) :
          /\ pending_captures[i].retry_count = 3
          /\ \A k \in 1..Len(log) : log[k].id # pending_captures[i].activity_id

\* ---- C33 ---------------------------------------------------------------
\* attempts of the current cycle that called the Oracle for the id
OracleAttempts(id) ==
    { k \in 1..Len(log) : /\ log[k].id = id
                          /\ log[k].path \in {"drain", "discovery"}
                          /\ log[k].result \in {"captured", "oracle_error"} }

\* C33: within one cycle the Oracle is called at most once for an activity
\* id; an id the drain has retried is not attempted again by the discovery
\* loop of the same cycle.
C33_OncePerCycle ==
    \A id \in DOMAIN strava : Cardinality(OracleAttempts(id)) <= 1

\* ---- C34 ---------------------------------------------------------------
\* C34: the drain deletes the pending row of an activity only after the
\* comparison row of the same id has been written in the same retry; so in
\* every state of a drain the activities of the drained list have a row in at
\* least one of the two tables.
C34_DeleteAfterWrite ==
    [][ /\ \A id \in DOMAIN strava :
              (PendingRows(pending_captures, id) # {} /\ PendingRows(pending_captures', id) = {})
                 => /\ pc = "drain_result"
                    /\ pending[pi].activity_id = id
                    /\ LastAttempt(log) = Attempt("drain", id, "captured")
                    /\ ComparisonRows(traffic_comparisons, id) # {}
        /\ pc' \in {"drain", "drain_result"}
              => \A k \in 1..Len(pending') :
                    ~InNeither(pending'[k].activity_id, traffic_comparisons', pending_captures') ]_vars

\* the drain has just deleted the pending row of an activity whose comparison
\* row it wrote in the step before
C34_Witness ==
    /\ pc = "drain"
    /\ pi > 1
    /\ LastAttempt(log) = Attempt("drain", pending[pi - 1].activity_id, "captured")
    /\ ComparisonRows(traffic_comparisons, pending[pi - 1].activity_id) # {}
    /\ PendingRows(pending_captures, pending[pi - 1].activity_id) = {}

\* ---- C35 ---------------------------------------------------------------
LoopPositions == {"idle", "drain", "drain_result", "discover", "returned", "failed"}

\* C35: no failure inside a cycle ends the continuous monitor: whatever has
\* failed, the monitor is at a position of its loop, a cycle that is over is
\* followed by the sleep of the check interval, and after the sleep the next
\* cycle starts with its connectivity check.
C35_MonitorSurvivesFailures ==
    /\ pc \in LoopPositions
    /\ CycleEnded => ENABLED Sleep
    /\ pc = "idle" => ENABLED CheckConnection

\* after a cycle in which a statement of the store raised the monitor has
\* slept, and the next cycle has passed its connectivity check with a ride
\* waiting in pending_captures that a failed enrichment had queued
C35_Witness ==
    /\ faulted
    /\ ~StoreErrorLogged
    /\ pc = "drain"
    /\ online
    /\ pending # <<>>

\* ---- C36 ---------------------------------------------------------------
InCycleNow == pc \in {"drain", "drain_result", "discover"}

\* what is left of the cycle: the phase, and the items left in the phase
Phase(position) == IF position \in {"drain", "drain_result"} THEN 2
                   ELSE IF position = "discover" THEN 1 ELSE 0

Remaining(position, list, done, found, looked) ==
    IF position = "drain" THEN 2 * (Len(list) + 1 - done)
    ELSE IF position = "drain_result" THEN 2 * (Len(list) + 1 - done) - 1
    ELSE IF position = "discover" THEN Len(found) + 1 - looked
    ELSE 0

CycleStep == <<pc, pi, ai, log>>' # <<pc, pi, ai, log>>

OracleCallsOfCycle(trace) ==
    Cardinality({ k \in 1..Len(trace) : /\ trace[k].path \in {"drain", "discovery"}
                                        /\ trace[k].result \in {"captured", "oracle_error"} })

\* C36: every cycle terminates: while a cycle is running one of its steps can
\* be taken, every step of the cycle brings it nearer to its end (a later
\* phase, or fewer items left in the phase, never fewer than none), and the
\* Oracle calls of the cycle never exceed the number of rows of the drained
\* list plus the number of activities the poll returned.
C36_CycleTerminates ==
    [][ /\ InCycleNow =>
              ENABLED (\/ DrainCapture \/ DrainRemove \/ DrainIncrement \/ Poll \/ PollFails
                       \/ DiscoverSkip \/ DiscoverDetailsFail \/ DiscoverCapture \/ Return)
        /\ (InCycleNow /\ CycleStep) =>
              /\ Remaining(pc, pending, pi, activities, ai) >= 0
              /\ \/ Phase(pc') < Phase(pc)
                 \/ /\ Phase(pc') = Phase(pc)
                    /\ Remaining(pc', pending', pi', activities', ai')
                          < Remaining(pc, pending, pi, activities, ai)
        /\ OracleCallsOfCycle(log') <= Len(pending') + Len(activities') ]_vars

\* a cycle has returned after one Oracle call for every row of its drained
\* list and one for every activity of its poll
C36_Witness ==
    /\ pc = "returned"
    /\ pending # <<>>
    /\ activities # <<>>
    /\ OracleCallsOfCycle(log) = Len(pending) + Len(activities)

====
